---- MODULE Spec2Model ----
(***************************************************************************)
(* Model of easyib.REST (src/src/easyib/easyib.py): the selected account   *)
(* and the order-confirmation handshake (submit_orders, modify_order,      *)
(* reply_yes, _reply_all_yes), together with cancel_order and              *)
(* switch_account.  Every blocking HTTP request is split in two steps: the *)
(* client issues the request (...Call) and the gateway answers it            *)
(* (...Response) or the transport fails (TransportError).  All client code   *)
(* between two requests runs inside one step.                              *)
(***************************************************************************)
EXTENDS Integers, Sequences, FiniteSets, TLC

\* ------------------------------------------------------------------ bounds
\* most Confirmation Messages the gateway issues within one invocation
MaxChain == 2
\* most accounts in the account listing read at construction
MaxAccounts == 2

\* ------------------------------------------------------------ value domains
Accounts == {"U1", "U2"}
MessageIds == {"m1", "m2"}
None == "None"
OrderIds == {None, "o1"}
Orders == {None, "ord"}

\* "no element" / "no value" marker of the model
NoElem == [nil |-> "nil"]

\* JSON objects the gateway puts in a response array
OrderResults == {[order_id |-> "o1"], [order_id |-> "o1", order_status |-> "Submitted"]}
Confirmations == {[id |-> m, message |-> "warn"] : m \in MessageIds}
ErrorObject == [error |-> "rejected"]
Elements == OrderResults \cup Confirmations
              \cup {ErrorObject, [id |-> "m1"], [message |-> "warn"]}

\* a response body: a JSON array, a JSON object, or text that is not JSON
ListBody(s) == [kind |-> "list", elems |-> s]
DictBody(o) == [kind |-> "dict", elems |-> <<o>>]
TextBody == [kind |-> "text", elems |-> <<>>]
Bodies == {ListBody(<<e>>) : e \in Elements}
            \cup {ListBody(<<>>),
                  ListBody(<<[id |-> "m1", message |-> "warn"], [order_id |-> "o1"]>>),
                  ListBody(<<[order_id |-> "o1"], [id |-> "m2", message |-> "warn"]>>),
                  DictBody(ErrorObject), TextBody}

\* account listings the gateway can return to get_accounts
RECURSIVE SeqsUpTo(_, _)
SeqsUpTo(S, n) ==
    IF n = 0 THEN {<<>>}
    ELSE LET shorter == SeqsUpTo(S, n - 1)
         IN  shorter \cup {Append(s, x) : s \in {t \in shorter : Len(t) = n - 1}, x \in S}
Listings == {s \in SeqsUpTo({[accountId |-> a] : a \in Accounts}, MaxAccounts) : Len(s) > 0}

\* --------------------------------------------------------------- the state
\* rest     the REST object (field id) and the frame of the call it is in
\* twin     a second REST object, driven in step with rest by the Pair actions
\* listing  the account listing the constructor received
\* lastSwitch  argument of the latest switch_account whose request was answered
VARIABLES rest, twin, listing, lastSwitch
vars == <<rest, twin, listing, lastSwitch>>

NoResult == [kind |-> "none", val |-> NoElem, exc |-> "none"]

\* __init__: self.id = self.get_accounts()[0]["accountId"]
InitId(accts) == accts[1].accountId

NewRest(accts) ==
    [id |-> InitId(accts), idAtCall |-> InitId(accts), pc |-> "idle", op |-> "none",
     reply_yes |-> TRUE, orderId |-> None, order |-> None, accountId |-> None,
     dic |-> NoElem, calls |-> <<>>, received |-> <<>>, result |-> NoResult]

\* ------------------------------------------------------- client-side code
\* an exception leaves the call
Raise(c, e) ==
    [c EXCEPT !.pc = "idle", !.result = [kind |-> "raise", val |-> NoElem, exc |-> e]]

\* return v
Return(c, v) ==
    [c EXCEPT !.pc = "idle", !.result = [kind |-> "return", val |-> v, exc |-> "none"]]

\* requests.post / requests.delete: the request leaves and the client blocks
Request(c, r) == [c EXCEPT !.calls = Append(@, r), !.pc = "wait"]

\* entry of a public method: a fresh frame on the same object
Enter(c, name, flag) ==
    [c EXCEPT !.op = name, !.reply_yes = flag, !.idAtCall = c.id, !.dic = NoElem,
              !.orderId = None, !.order = None, !.accountId = None,
              !.calls = <<>>, !.received = <<>>, !.result = NoResult]

\* variant: takes the last element of the array, response.json()[-1]
JsonFirstLast(body) ==
    IF body.kind = "text" THEN [ok |-> FALSE, val |-> NoElem, exc |-> "JSONDecodeError"]
    ELSE IF body.kind = "dict" THEN [ok |-> FALSE, val |-> NoElem, exc |-> "KeyError"]
    ELSE IF Len(body.elems) = 0 THEN [ok |-> FALSE, val |-> NoElem, exc |-> "IndexError"]
    ELSE [ok |-> TRUE, val |-> body.elems[Len(body.elems)], exc |-> "none"]

\* response.json()[0]
JsonFirst(body) ==
    IF body.kind = "text" THEN [ok |-> FALSE, val |-> NoElem, exc |-> "JSONDecodeError"]
    ELSE IF body.kind = "dict" THEN [ok |-> FALSE, val |-> NoElem, exc |-> "KeyError"]
    ELSE IF Len(body.elems) = 0 THEN [ok |-> FALSE, val |-> NoElem, exc |-> "IndexError"]
    ELSE [ok |-> TRUE, val |-> body.elems[1], exc |-> "none"]

\* reply_yes, up to its request: POST iserver/reply/<id>
ReplyYesRequest(c, id) == Request(c, [ep |-> "reply", acct |-> "-", key |-> id])

\* variant: the body of the loop runs once before the first test (do-while)
ReplyAllYesLoopDoWhile(c) ==
    IF c.reply_yes /\ (Len(c.received) = 1 \/ "order_id" \notin DOMAIN c.dic)
    THEN IF "message" \notin DOMAIN c.dic THEN Raise(c, "KeyError")
         ELSE IF "id" \notin DOMAIN c.dic THEN Raise(c, "KeyError")
         ELSE ReplyYesRequest(c, c.dic.id)
    ELSE Return(c, c.dic)

\* variant: the reply_yes_to_all flag is not consulted
ReplyAllYesLoopIgnoreFlag(c) ==
    IF "order_id" \notin DOMAIN c.dic
    THEN IF "message" \notin DOMAIN c.dic THEN Raise(c, "KeyError")
         ELSE IF "id" \notin DOMAIN c.dic THEN Raise(c, "KeyError")
         ELSE ReplyYesRequest(c, c.dic.id)
    ELSE Return(c, c.dic)

\* variant: the loop tests for a message identifier, while "id" in dic.keys()
ReplyAllYesLoopWhileId(c) ==
    IF c.reply_yes /\ "id" \in DOMAIN c.dic
    THEN IF "message" \notin DOMAIN c.dic THEN Raise(c, "KeyError")
         ELSE ReplyYesRequest(c, c.dic.id)
    ELSE Return(c, c.dic)

\* variant: an if in place of the while, one reply at most
ReplyAllYesLoopOnce(c) ==
    IF c.reply_yes /\ Len(c.received) = 1 /\ "order_id" \notin DOMAIN c.dic
    THEN IF "message" \notin DOMAIN c.dic THEN Raise(c, "KeyError")
         ELSE IF "id" \notin DOMAIN c.dic THEN Raise(c, "KeyError")
         ELSE ReplyYesRequest(c, c.dic.id)
    ELSE Return(c, c.dic)

\* _reply_all_yes from the loop test on, with dic assigned:
\*   if reply_yes_to_all: while "order_id" not in dic.keys(): ... ; return dic
ReplyAllYesLoop(c) ==
    IF c.reply_yes /\ "order_id" \notin DOMAIN c.dic
    THEN IF "message" \notin DOMAIN c.dic THEN Raise(c, "KeyError")
         ELSE IF "id" \notin DOMAIN c.dic THEN Raise(c, "KeyError")
         ELSE ReplyYesRequest(c, c.dic.id)
    ELSE Return(c, c.dic)

\* submit_orders up to its request
SubmitOrdersEnter(c, flag) ==
    Request(Enter(c, "submit", flag), [ep |-> "orders", acct |-> c.id, key |-> "-"])

\* variant: the assert joins its two tests with or
ModifyOrderEnterOr(c, orderId, order, flag) ==
    LET f == [Enter(c, "modify", flag) EXCEPT !.orderId = orderId, !.order = order]
    IN  IF orderId # None \/ order # None
        THEN Request(f, [ep |-> "modify", acct |-> c.id, key |-> orderId])
        ELSE Raise(f, "AssertionError")

\* variant: reply_yes is not passed on to _reply_all_yes
ModifyOrderEnterAlwaysYes(c, orderId, order, flag) ==
    LET f == [Enter(c, "modify", TRUE) EXCEPT !.orderId = orderId, !.order = order]
    IN  IF orderId # None /\ order # None
        THEN Request(f, [ep |-> "modify", acct |-> c.id, key |-> orderId])
        ELSE Raise(f, "AssertionError")

\* modify_order up to its request: the assert, then the POST
ModifyOrderEnter(c, orderId, order, flag) ==
    LET f == [Enter(c, "modify", flag) EXCEPT !.orderId = orderId, !.order = order]
    IN  IF orderId # None /\ order # None
        THEN Request(f, [ep |-> "modify", acct |-> c.id, key |-> orderId])
        ELSE Raise(f, "AssertionError")

\* submit_orders / modify_order after a response to the placement or to a
\* reply: dic = response.json()[0], then the loop of _reply_all_yes
HandshakeOnResponse(c, body) ==
    LET first == JsonFirst(body)
    IN  IF first.ok THEN ReplyAllYesLoop([c EXCEPT !.dic = first.val])
        ELSE Raise(c, first.exc)

\* reply_yes called by the user, after the response: return response.json()[0]
ReplyYesOnResponse(c, body) ==
    LET first == JsonFirst(body)
    IN  IF first.ok THEN Return(c, first.val) ELSE Raise(c, first.exc)

\* switch_account after the response: self.id = accountId; return response.json()
SwitchAccountOnResponse(c, body) ==
    LET got == [c EXCEPT !.id = c.accountId]
    IN  IF body.kind = "text" THEN Raise(got, "JSONDecodeError") ELSE Return(got, body)

\* cancel_order after the response: return response.json()
CancelOrderOnResponse(c, body) ==
    IF body.kind = "text" THEN Raise(c, "JSONDecodeError") ELSE Return(c, body)

\* variant: the error is caught, a cancellation is sent, the error re-raised
OnTransportErrorCancel(c) ==
    Raise([c EXCEPT !.calls = Append(@, [ep |-> "cancel", acct |-> c.id, key |-> "o1"])],
          "ConnectionError")

\* requests raises: nothing in the class catches it
OnTransportError(c) == Raise(c, "ConnectionError")

\* reply_yes called by the user, up to its request
ReplyYesEnter(c, id) == ReplyYesRequest(Enter(c, "reply", TRUE), id)

\* cancel_order up to its request: DELETE iserver/account/<self.id>/order/<orderId>
CancelOrderEnter(c, orderId) ==
    Request([Enter(c, "cancel", TRUE) EXCEPT !.orderId = orderId],
            [ep |-> "cancel", acct |-> c.id, key |-> orderId])

\* variant: self.id is assigned before the request is made
SwitchAccountEnterEager(c, accountId) ==
    Request([Enter(c, "switch", TRUE) EXCEPT !.accountId = accountId, !.id = accountId],
            [ep |-> "switch", acct |-> "-", key |-> accountId])

\* switch_account up to its request: POST iserver/account {"acctId": accountId}
SwitchAccountEnter(c, accountId) ==
    Request([Enter(c, "switch", TRUE) EXCEPT !.accountId = accountId],
            [ep |-> "switch", acct |-> "-", key |-> accountId])

\* what the network did to the outstanding request, as the call observes it
TransportFailure == [kind |-> "fail", elems |-> <<>>]
Deliver(c, outcome) == [c EXCEPT !.received = Append(@, outcome)]

\* replies issued so far in the current call
Replies(c) == SelectSeq(c.calls, LAMBDA r : r.ep = "reply")

\* ------------------------------------------------------------------ actions
Init ==
    /\ listing \in Listings
    /\ rest = NewRest(listing)
    /\ twin = NewRest(listing)
    /\ lastSwitch = None

SubmitOrdersCall ==
    /\ rest.pc = "idle"
    /\ \E flag \in BOOLEAN : rest' = SubmitOrdersEnter(rest, flag)
    /\ UNCHANGED <<twin, listing, lastSwitch>>

ModifyOrderCall ==
    /\ rest.pc = "idle"
    /\ \E orderId \in OrderIds, order \in Orders, flag \in BOOLEAN :
          rest' = ModifyOrderEnter(rest, orderId, order, flag)
    /\ UNCHANGED <<twin, listing, lastSwitch>>

ReplyYesCall ==
    /\ rest.pc = "idle"
    /\ \E id \in MessageIds : rest' = ReplyYesEnter(rest, id)
    /\ UNCHANGED <<twin, listing, lastSwitch>>

CancelOrderCall ==
    /\ rest.pc = "idle"
    /\ \E orderId \in OrderIds \ {None} : rest' = CancelOrderEnter(rest, orderId)
    /\ UNCHANGED <<twin, listing, lastSwitch>>

SwitchAccountCall ==
    /\ rest.pc = "idle"
    /\ \E accountId \in Accounts : rest' = SwitchAccountEnter(rest, accountId)
    /\ UNCHANGED <<twin, listing, lastSwitch>>

\* the gateway answers the placement, the modification or a reply of the loop;
\* it issues at most MaxChain Confirmation Messages per call
HandshakeResponse ==
    /\ rest.pc = "wait"
    /\ rest.op \in {"submit", "modify"}
    /\ \E body \in Bodies :
          /\ rest' = HandshakeOnResponse(Deliver(rest, body), body)
          /\ Len(Replies(rest')) <= MaxChain
    /\ UNCHANGED <<twin, listing, lastSwitch>>

ReplyYesResponse ==
    /\ rest.pc = "wait"
    /\ rest.op = "reply"
    /\ \E body \in Bodies : rest' = ReplyYesOnResponse(Deliver(rest, body), body)
    /\ UNCHANGED <<twin, listing, lastSwitch>>

SwitchAccountResponse ==
    /\ rest.pc = "wait"
    /\ rest.op = "switch"
    /\ \E body \in Bodies : rest' = SwitchAccountOnResponse(Deliver(rest, body), body)
    /\ lastSwitch' = rest.accountId
    /\ UNCHANGED <<twin, listing>>

CancelOrderResponse ==
    /\ rest.pc = "wait"
    /\ rest.op = "cancel"
    /\ \E body \in Bodies : rest' = CancelOrderOnResponse(Deliver(rest, body), body)
    /\ UNCHANGED <<twin, listing, lastSwitch>>

TransportError ==
    /\ rest.pc = "wait"
    /\ rest' = OnTransportError(Deliver(rest, TransportFailure))
    /\ UNCHANGED <<twin, listing, lastSwitch>>

Next ==
    \/ SubmitOrdersCall
    \/ ModifyOrderCall
    \/ ReplyYesCall
    \/ CancelOrderCall
    \/ SwitchAccountCall
    \/ HandshakeResponse
    \/ ReplyYesResponse
    \/ SwitchAccountResponse
    \/ CancelOrderResponse
    \/ TransportError

Spec == Init /\ [][Next]_vars

\* ---------------------------------------------- two objects, the same gateway
\* rest calls submit_orders and twin calls modify_order with the same flag;
\* the gateway then gives both the same answer to their k-th request
PairCall ==
    /\ rest.pc = "idle" /\ twin.pc = "idle"
    /\ \E flag \in BOOLEAN, orderId \in OrderIds \ {None}, order \in Orders \ {None} :
          /\ rest' = SubmitOrdersEnter(rest, flag)
          /\ twin' = ModifyOrderEnter(twin, orderId, order, flag)
    /\ UNCHANGED <<listing, lastSwitch>>

PairResponse ==
    /\ rest.pc = "wait" \/ twin.pc = "wait"
    /\ \E body \in Bodies :
          /\ rest' = IF rest.pc = "wait"
                     THEN HandshakeOnResponse(Deliver(rest, body), body) ELSE rest
          /\ twin' = IF twin.pc = "wait"
                     THEN HandshakeOnResponse(Deliver(twin, body), body) ELSE twin
          /\ Len(Replies(rest')) <= MaxChain
          /\ Len(Replies(twin')) <= MaxChain
    /\ UNCHANGED <<listing, lastSwitch>>

PairTransportError ==
    /\ rest.pc = "wait" \/ twin.pc = "wait"
    /\ rest' = IF rest.pc = "wait"
               THEN OnTransportError(Deliver(rest, TransportFailure)) ELSE rest
    /\ twin' = IF twin.pc = "wait"
               THEN OnTransportError(Deliver(twin, TransportFailure)) ELSE twin
    /\ UNCHANGED <<listing, lastSwitch>>

NextPair == PairCall \/ PairResponse \/ PairTransportError

SpecPair == Init /\ [][NextPair]_vars

\* ------------------------------------------------- vocabulary of the claims
HasOrderId(e) == "order_id" \in DOMAIN e
\* a Confirmation Message: an identifier, a prompt, and no order identifier
IsConfirmation(e) ==
    "id" \in DOMAIN e /\ "message" \in DOMAIN e /\ "order_id" \notin DOMAIN e
HasFirst(b) == b.kind = "list" /\ Len(b.elems) > 0
ConfBody(b) == HasFirst(b) /\ IsConfirmation(b.elems[1])
TermBody(b) == HasFirst(b) /\ HasOrderId(b.elems[1])
AllConfirmations(r) == \A k \in 1..Len(r) : ConfBody(r[k])
\* N Confirmation Messages, then a terminal Order Result
ChainThenTerminal(r) ==
    /\ Len(r) >= 1
    /\ TermBody(r[Len(r)])
    /\ AllConfirmations(SubSeq(r, 1, Len(r) - 1))
Returned(c, v) == c.pc = "idle" /\ c.result = [kind |-> "return", val |-> v, exc |-> "none"]
Raised(c, e) == c.pc = "idle" /\ c.result = [kind |-> "raise", val |-> NoElem, exc |-> e]
Handshake(c) == c.op \in {"submit", "modify"}

\* C1: auto-confirmed submit_orders whose responses were N Confirmation
\* Messages followed by a terminal Order Result has made exactly N+1 requests
\* (the placement, then N replies) and has returned that Order Result
\* unchanged; for N = 0 that is one request and no reply.
C1_NPlusOneCalls ==
    (rest.op = "submit" /\ rest.reply_yes /\ ChainThenTerminal(rest.received)) =>
        /\ Len(rest.calls) = Len(rest.received)
        /\ rest.calls[1].ep = "orders"
        /\ Len(Replies(rest)) = Len(rest.received) - 1
        /\ Returned(rest, rest.received[Len(rest.received)].elems[1])

C1_Witness ==
    /\ rest.op = "submit" /\ rest.reply_yes
    /\ ChainThenTerminal(rest.received)
    /\ Len(rest.received) >= 3
    /\ rest.result.kind = "return"

\* C2: submit_orders without auto-confirmation makes exactly one request, the
\* placement, never a reply, and once answered with an array returns the
\* first element of that array unmodified, Confirmation Message or not.
C2_NoReplyWhenDisabled ==
    (rest.op = "submit" /\ ~rest.reply_yes) =>
        /\ Len(rest.calls) = 1
        /\ rest.calls[1].ep = "orders"
        /\ Replies(rest) = <<>>
        /\ Len(rest.received) <= 1
        /\ (rest.received # <<>> /\ HasFirst(rest.received[1])) =>
               Returned(rest, rest.received[1].elems[1])
        /\ rest.result.kind = "return" =>
               (HasFirst(rest.received[1]) /\ rest.result.val = rest.received[1].elems[1])

C2_Witness ==
    /\ rest.op = "submit" /\ ~rest.reply_yes
    /\ rest.received # <<>> /\ ConfBody(rest.received[1])
    /\ Returned(rest, rest.received[1].elems[1])

\* C3: whatever auto-confirmed submit_orders returns contains the
\* order-identifier field.
C3_ReturnsOnlyOrderResult ==
    (rest.op = "submit" /\ rest.reply_yes /\ rest.result.kind = "return") =>
        HasOrderId(rest.result.val)

C3_Witness ==
    /\ rest.op = "submit" /\ rest.reply_yes /\ rest.result.kind = "return"
    /\ Len(rest.received) >= 2
    /\ HasOrderId(rest.result.val)

\* C4: as long as every response of an auto-confirmed submit_orders has been
\* a Confirmation Message the call has not returned, has answered each of
\* them with one reply and is waiting for the next response; and the call has
\* returned, with no further request, as soon as a response carries the
\* order-identifier field.
C4_LoopsWhileConfirmations ==
    (rest.op = "submit" /\ rest.reply_yes) =>
        /\ AllConfirmations(rest.received) =>
              /\ rest.pc = "wait"
              /\ rest.result.kind = "none"
              /\ Len(Replies(rest)) = Len(rest.received)
        /\ (rest.received # <<>> /\ TermBody(rest.received[Len(rest.received)])) =>
              /\ rest.pc = "idle"
              /\ rest.result.kind = "return"
              /\ Len(rest.calls) = Len(rest.received)

C4_Witness ==
    /\ rest.op = "submit" /\ rest.reply_yes
    /\ Len(rest.received) >= 2
    /\ AllConfirmations(rest.received)
    /\ rest.pc = "wait"

\* C5: modify_order without an order identifier, without an order, or without
\* both raises its assertion with no request sent, no reply made and the
\* selected account as it was.
C5_ModifyPrecondition ==
    (rest.op = "modify" /\ (rest.orderId = None \/ rest.order = None)) =>
        /\ Raised(rest, "AssertionError")
        /\ rest.calls = <<>>
        /\ rest.received = <<>>
        /\ rest.id = rest.idAtCall

C5_Witness ==
    /\ rest.op = "modify"
    /\ rest.orderId # None /\ rest.order = None
    /\ Raised(rest, "AssertionError")

\* C6: an error body answering the placement is returned to the caller of
\* submit_orders as it is, and no error is raised, with auto-confirmation
\* enabled and disabled.
IsErrorBody(b) == b = DictBody(ErrorObject) \/ b = ListBody(<<ErrorObject>>)
C6_ErrorBodySurfaced ==
    (rest.op = "submit" /\ Len(rest.received) = 1 /\ IsErrorBody(rest.received[1])) =>
        /\ rest.pc = "idle"
        /\ rest.result.kind = "return"
        /\ rest.result.val \in {rest.received[1], ErrorObject}

\* C7: a transport error on the placement, the modification or any reply of
\* the handshake raises at once: the failed request is the last one of the
\* call, nothing is returned and the selected account is as it was.
C7_TransportErrorPropagates ==
    (Handshake(rest) /\ rest.received # <<>>
       /\ rest.received[Len(rest.received)] = TransportFailure) =>
        /\ Raised(rest, "ConnectionError")
        /\ Len(rest.calls) = Len(rest.received)
        /\ rest.id = rest.idAtCall

C7_Witness ==
    /\ rest.op = "submit"
    /\ Len(rest.received) >= 2
    /\ rest.received[Len(rest.received)] = TransportFailure
    /\ Raised(rest, "ConnectionError")

\* C8: on the same responses modify_order with both arguments present issues
\* the same replies, in the same order, and ends as submit_orders does; only
\* the first request differs, in its endpoint and key.
C8_ModifyAsSubmit ==
    (rest.op = "submit" /\ twin.op = "modify") =>
        /\ twin.pc = rest.pc
        /\ twin.result = rest.result
        /\ twin.received = rest.received
        /\ Len(twin.calls) = Len(rest.calls)
        /\ Replies(twin) = Replies(rest)
        /\ rest.calls[1] = [ep |-> "orders", acct |-> rest.id, key |-> "-"]
        /\ twin.calls[1] = [ep |-> "modify", acct |-> twin.id, key |-> twin.orderId]

C8_Witness ==
    /\ rest.op = "submit" /\ twin.op = "modify"
    /\ rest.reply_yes
    /\ Len(Replies(twin)) >= 2
    /\ twin.result.kind = "return"

\* C9: in an auto-confirmed handshake at most one request is outstanding; the
\* k-th reply follows the k-th response, whose first element is a Confirmation
\* Message, and carries the identifier of that element; every
\* Confirmation Message received is answered; the element under examination
\* is the first element of the latest response; and no request follows a
\* response that carries the order-identifier field.
C9_Sequential ==
    (Handshake(rest) /\ rest.reply_yes) =>
        /\ Len(rest.calls) - Len(rest.received) = (IF rest.pc = "wait" THEN 1 ELSE 0)
        /\ \A k \in 2..Len(rest.calls) :
              /\ rest.calls[k].ep = "reply"
              /\ k - 1 <= Len(rest.received)
              /\ ConfBody(rest.received[k - 1])
              /\ rest.calls[k].key = rest.received[k - 1].elems[1].id
              /\ \A j \in 1..(k - 1) : ~TermBody(rest.received[j])
        /\ \A k \in 1..Len(rest.received) :
              ConfBody(rest.received[k]) => Len(rest.calls) >= k + 1
        /\ (rest.received # <<>> /\ HasFirst(rest.received[Len(rest.received)])) =>
              rest.dic = rest.received[Len(rest.received)].elems[1]

C9_Witness ==
    /\ Handshake(rest) /\ rest.reply_yes
    /\ Len(Replies(rest)) >= 2
    /\ Replies(rest)[1].key # Replies(rest)[2].key
    /\ rest.result.kind = "return"

\* C10: the selected account is the argument of the latest switch_account
\* whose request was answered, or the first account of the listing read at
\* construction when there is none; submit_orders, modify_order, reply_yes
\* and cancel_order leave it alone, and so does a switch_account whose request
\* fails; placements, modifications and cancellations are addressed to it.
C10_SelectedAccount ==
    /\ rest.id = (IF lastSwitch = None THEN listing[1].accountId ELSE lastSwitch)
    /\ rest.op \in {"submit", "modify", "reply", "cancel"} => rest.id = rest.idAtCall
    /\ (rest.op = "switch" /\ (rest.pc = "wait" \/ rest.result.exc = "ConnectionError")) =>
           rest.id = rest.idAtCall
    /\ \A k \in 1..Len(rest.calls) :
           rest.calls[k].ep \in {"orders", "modify", "cancel"} => rest.calls[k].acct = rest.id

C10_Witness ==
    /\ lastSwitch # None
    /\ rest.id = lastSwitch
    /\ rest.id # listing[1].accountId
    /\ rest.op = "submit"
    /\ rest.calls[1].acct = rest.id
    /\ Len(rest.calls) >= 2
====
